---- MODULE Spec2Model ----
(***************************************************************************)
(* Model of src/Erlang.py: the Erlang B / Erlang C evaluation core         *)
(* (calculate_erlang, calculate_erlang_b, calculate_blocking_probability,  *)
(* calculate_erlang_c, calculate_waiting_time, calculate_service_level).   *)
(*                                                                         *)
(* Numbers.  A Python number is modelled as a record:                      *)
(*   [k |-> "fin", neg, n, d]  the exact rational (+/-) n/d, n and d being *)
(*                             arbitrary-precision naturals (d > 0);       *)
(*   [k |-> "inf", neg]        float +inf / -inf;                          *)
(*   [k |-> "nan"]             float nan;                                  *)
(*   [k |-> "exc", e]          an exception raised while evaluating.       *)
(* Finite results are exact (rounding to 53 bits and underflow are not     *)
(* modelled); a float result whose magnitude reaches 2^1024 overflows: it  *)
(* becomes inf for the operators + - * / and raises OverflowError in       *)
(* math.pow and in the int -> float conversion of float / int.             *)
(***************************************************************************)
EXTENDS Integers, Sequences, FiniteSets, TLC

(***************************************************************************)
(* Arbitrary-precision naturals: little-endian sequences of limbs in       *)
(* 0 .. Base-1 without a most-significant zero limb; zero is << >>.        *)
(***************************************************************************)
Base == 2^15

RECURSIVE BigOfNat(_)
BigOfNat(x) ==
    IF x = 0 THEN << >> ELSE <<x % Base>> \o BigOfNat(x \div Base)

Limb(a, i) == IF 1 <= i /\ i <= Len(a) THEN a[i] ELSE 0

MaxOf(x, y) == IF x >= y THEN x ELSE y

\* how many limbs from the most significant end satisfy the test same[i]
\* before the first that does not (len if all do)
TopRun(len, same) ==
    IF \A i \in 1 .. len : same[i] THEN len
    ELSE (CHOOSE j \in 1 .. len :
              /\ ~same[len + 1 - j]
              /\ \A l \in 1 .. (j - 1) : same[len + 1 - l]) - 1

\* drop the most significant zero limbs
Strip(a) ==
    LET IsZeroLimb == [i \in 1 .. Len(a) |-> a[i] = 0]
    IN  SubSeq(a, 1, Len(a) - TopRun(Len(a), IsZeroLimb))

BigCmp(a, b) ==
    IF Len(a) < Len(b) THEN -1
    ELSE IF Len(a) > Len(b) THEN 1
    ELSE IF a = b THEN 0
    ELSE LET SameLimb == [i \in 1 .. Len(a) |-> a[i] = b[i]]
             top == Len(a) - TopRun(Len(a), SameLimb)
         IN  IF a[top] < b[top] THEN -1 ELSE 1

\* one round of carries (borrows) over limbs that are out of range
Carry(x) ==
    LET r == [i \in 1 .. Len(x) + 1 |->
                  (IF i <= Len(x) THEN x[i] % Base ELSE 0)
                + (IF i > 1 THEN x[i - 1] \div Base ELSE 0)]
    IN  SubSeq(r, 1, Len(x) + 1)

\* the natural number whose limbs, in or out of range, are x
RECURSIVE Normalize(_)
Normalize(x) ==
    IF \A i \in 1 .. Len(x) : 0 <= x[i] /\ x[i] < Base THEN Strip(x)
    ELSE Normalize(Carry(x))

BigAdd(a, b) ==
    LET len == MaxOf(Len(a), Len(b))
        r   == [i \in 1 .. len |-> Limb(a, i) + Limb(b, i)]
    IN  Normalize(SubSeq(r, 1, len))

\* a - b for a >= b
BigSub(a, b) ==
    LET r == [i \in 1 .. Len(a) |-> a[i] - Limb(b, i)]
    IN  Normalize(SubSeq(r, 1, Len(a)))

\* a * m for a limb-sized m (0 <= m < Base)
BigMulSmall(a, m) ==
    LET r == [i \in 1 .. Len(a) |-> a[i] * m]
    IN  Normalize(SubSeq(r, 1, Len(a)))

\* a * Base^by
BigShift(a, by) ==
    IF a = << >> THEN << >>
    ELSE LET r == [i \in 1 .. Len(a) + by |-> IF i <= by THEN 0 ELSE a[i - by]]
         IN  SubSeq(r, 1, Len(a) + by)

\* a * (the number whose limbs are the limbs lo .. hi of b), by halves
RECURSIVE MulLong(_, _, _, _)
MulLong(a, b, lo, hi) ==
    IF lo = hi THEN BigMulSmall(a, b[lo])
    ELSE LET mid == (lo + hi) \div 2
         IN  BigAdd(MulLong(a, b, lo, mid),
                    BigShift(MulLong(a, b, mid + 1, hi), mid + 1 - lo))

BigMul(a, b) ==
    IF a = << >> \/ b = << >> THEN << >>
    ELSE IF Len(a) >= Len(b) THEN MulLong(a, b, 1, Len(b))
    ELSE MulLong(b, a, 1, Len(a))

\* the largest q in lo .. hi with b * q <= a   (b * lo <= a is given)
RECURSIVE QuotSearch(_, _, _, _)
QuotSearch(a, b, lo, hi) ==
    IF lo = hi THEN lo
    ELSE LET mid == (lo + hi + 1) \div 2
         IN  IF BigCmp(BigMulSmall(b, mid), a) <= 0
             THEN QuotSearch(a, b, mid, hi)
             ELSE QuotSearch(a, b, lo, mid - 1)

\* q in 1 .. Base-1 with a = b * q if there is one, else 0   (b > 0)
SmallQuot(a, b) ==
    IF Len(a) < Len(b) \/ Len(a) > Len(b) + 1 THEN 0
    ELSE LET q == QuotSearch(a, b, 0, Base - 1)
         IN  IF q > 0 /\ BigMulSmall(b, q) = a THEN q ELSE 0

\* long division of a by b > 0 over the limbs i .. Len(a) of a, from the most
\* significant: <<quotient limbs (most significant first), remainder>>
RECURSIVE DivFrom(_, _, _)
DivFrom(a, b, i) ==
    IF i > Len(a) THEN <<<< >>, << >>>>
    ELSE LET up  == DivFrom(a, b, i + 1)
             cur == Strip(<<a[i]>> \o up[2])
             q   == QuotSearch(cur, b, 0, Base - 1)
         IN  <<up[1] \o <<q>>, BigSub(cur, BigMulSmall(b, q))>>

\* <<a \div b, a % b>> for b > 0
BigDivMod(a, b) ==
    LET r   == DivFrom(a, b, 1)
        len == Len(r[1])
        q   == [i \in 1 .. len |-> r[1][len + 1 - i]]
    IN  <<Strip(SubSeq(q, 1, len)), r[2]>>

\* a^e, by squaring
RECURSIVE BigPow(_, _)
BigPow(a, e) ==
    IF e = 0 THEN <<1>>
    ELSE LET h == BigPow(a, e \div 2)
             sq == BigMul(h, h)
         IN  IF e % 2 = 1 THEN BigMul(sq, a) ELSE sq

\* lo * (lo+1) * ... * hi, by halves
RECURSIVE BigProduct(_, _)
BigProduct(lo, hi) ==
    IF lo > hi THEN <<1>>
    ELSE IF lo = hi THEN BigOfNat(lo)
    ELSE LET mid == (lo + hi) \div 2
         IN  BigMul(BigProduct(lo, mid), BigProduct(mid + 1, hi))

BigFactorial(x) == BigProduct(1, x)

(***************************************************************************)
(* Python numbers                                                          *)
(***************************************************************************)
Fin(neg, n, d) ==
    IF n = << >> THEN [k |-> "fin", neg |-> FALSE, n |-> << >>, d |-> <<1>>]
    ELSE [k |-> "fin", neg |-> neg, n |-> n, d |-> d]

PyInt(x) == Fin(x < 0, BigOfNat(IF x < 0 THEN -x ELSE x), <<1>>)

Frac(p, q) == Fin(p < 0, BigOfNat(IF p < 0 THEN -p ELSE p), BigOfNat(q))

Zero == PyInt(0)

One == PyInt(1)

Inf(neg) == [k |-> "inf", neg |-> neg]

PosInf == Inf(FALSE)

NaN == [k |-> "nan"]

Exc(e) == [k |-> "exc", e |-> e]

\* an opaque finite float (the value of math.exp at a nonzero argument and
\* what is computed from it)
Sym(t) == [k |-> "sym", t |-> t]

IsZero(v) == v.k = "fin" /\ v.n = << >>

\* the exponent of the first power of two above the float range
DblMaxExp == 1024

\* 2^x
BigPow2(x) == BigShift(<<2^(x % 15)>>, x \div 15)

\* |n/d| >= 2^DblMaxExp: the magnitude is outside the float range
Overflows(v) ==
    /\ v.k = "fin"
    /\ Len(v.n) >= Len(v.d) + (DblMaxExp \div 15)
    /\ BigCmp(v.n, BigMul(BigPow2(DblMaxExp), v.d)) >= 0

\* the result of a float operator: overflow gives inf, silently
ToFloat(v) == IF Overflows(v) THEN Inf(v.neg) ELSE v

\* <<a's numerator, b's numerator, denominator>> over a common denominator
Common(a, b) ==
    IF a.d = b.d THEN <<a.n, b.n, a.d>>
    ELSE LET qb == SmallQuot(b.d, a.d)
         IN  IF qb > 0 THEN <<BigMulSmall(a.n, qb), b.n, b.d>>
             ELSE LET qa == SmallQuot(a.d, b.d)
                  IN  IF qa > 0 THEN <<a.n, BigMulSmall(b.n, qa), a.d>>
                      ELSE <<BigMul(a.n, b.d), BigMul(b.n, a.d), BigMul(a.d, b.d)>>

\* -1, 0, 1 as a < b, a = b, a > b, for a and b finite or infinite
Cmp3(a, b) ==
    IF a.k = "inf" \/ b.k = "inf"
    THEN LET ra == IF a.k = "inf" THEN (IF a.neg THEN -2 ELSE 2) ELSE 0
             rb == IF b.k = "inf" THEN (IF b.neg THEN -2 ELSE 2) ELSE 0
         IN  IF ra < rb THEN -1 ELSE IF ra > rb THEN 1 ELSE 0
    ELSE IF a.neg /\ ~b.neg THEN -1
    ELSE IF ~a.neg /\ b.neg THEN 1
    ELSE LET m == IF a.d = b.d THEN BigCmp(a.n, b.n)
                  ELSE BigCmp(BigMul(a.n, b.d), BigMul(b.n, a.d))
         IN  IF a.neg THEN -m ELSE m

Ordered(a, b) == a.k \in {"fin", "inf"} /\ b.k \in {"fin", "inf"}

FLess(a, b) == Ordered(a, b) /\ Cmp3(a, b) < 0

FEq(a, b) == Ordered(a, b) /\ Cmp3(a, b) = 0

FLeq(a, b) == Ordered(a, b) /\ Cmp3(a, b) <= 0

FGeq(a, b) == FLeq(b, a)

FNeg(a) ==
    IF a.k = "fin" THEN Fin(~a.neg, a.n, a.d)
    ELSE IF a.k = "inf" THEN Inf(~a.neg)
    ELSE IF a.k = "sym" THEN Sym(<<"neg", a>>)
    ELSE a

FAdd(a, b) ==
    IF a.k = "exc" THEN a
    ELSE IF b.k = "exc" THEN b
    ELSE IF a.k = "nan" \/ b.k = "nan" THEN NaN
    ELSE IF a.k = "inf"
         THEN (IF b.k = "inf" /\ b.neg # a.neg THEN NaN ELSE a)
    ELSE IF b.k = "inf" THEN b
    ELSE IF a.k = "sym" \/ b.k = "sym" THEN Sym(<<"add", a, b>>)
    ELSE LET c == Common(a, b)
         IN  IF a.neg = b.neg
             THEN ToFloat(Fin(a.neg, BigAdd(c[1], c[2]), c[3]))
             ELSE IF BigCmp(c[1], c[2]) >= 0
                  THEN Fin(a.neg, BigSub(c[1], c[2]), c[3])
                  ELSE Fin(b.neg, BigSub(c[2], c[1]), c[3])

FSub(a, b) == FAdd(a, FNeg(b))

FMul(a, b) ==
    IF a.k = "exc" THEN a
    ELSE IF b.k = "exc" THEN b
    ELSE IF a.k = "nan" \/ b.k = "nan" THEN NaN
    ELSE IF a.k = "inf" \/ b.k = "inf"
         THEN (IF IsZero(a) \/ IsZero(b) THEN NaN
               ELSE IF a.k = "sym" \/ b.k = "sym" THEN (IF a.k = "inf" THEN a ELSE b)
               ELSE Inf(a.neg # b.neg))
    ELSE IF IsZero(a) \/ IsZero(b) THEN Zero
    ELSE IF a.k = "sym" \/ b.k = "sym" THEN Sym(<<"mul", a, b>>)
    ELSE ToFloat(Fin(a.neg # b.neg, BigMul(a.n, b.n), BigMul(a.d, b.d)))

FDiv(a, b) ==
    IF a.k = "exc" THEN a
    ELSE IF b.k = "exc" THEN b
    ELSE IF IsZero(b) THEN Exc("ZeroDivisionError")
    ELSE IF a.k = "nan" \/ b.k = "nan" THEN NaN
    ELSE IF a.k = "inf"
         THEN (IF b.k = "inf" THEN NaN
               ELSE IF b.k = "sym" THEN a
               ELSE Inf(a.neg # b.neg))
    ELSE IF b.k = "inf" THEN Zero
    ELSE IF IsZero(a) THEN Zero
    ELSE IF a.k = "sym" \/ b.k = "sym" THEN Sym(<<"div", a, b>>)
    ELSE IF a.d = b.d THEN ToFloat(Fin(a.neg # b.neg, a.n, b.n))
    ELSE ToFloat(Fin(a.neg # b.neg, BigMul(a.n, b.d), BigMul(a.d, b.n)))

\* math.pow(x, e) for an integer e >= 0: OverflowError outside the float range
MathPow(x, e) ==
    IF e = 0 THEN One
    ELSE IF x.k = "fin"
         THEN LET v == Fin(x.neg /\ e % 2 = 1, BigPow(x.n, e), BigPow(x.d, e))
              IN  IF Overflows(v) THEN Exc("OverflowError") ELSE v
    ELSE IF x.k = "inf" THEN Inf(x.neg /\ e % 2 = 1)
    ELSE x

\* math.factorial(x) for an integer x >= 0: an exact int
MathFactorial(x) == Fin(FALSE, BigFactorial(x), <<1>>)

\* a / i for a float a and an int i: i is converted to float first
FDivInt(a, i) ==
    IF a.k = "exc" THEN a
    ELSE IF Overflows(i) THEN Exc("OverflowError")
    ELSE FDiv(a, i)

\* math.exp(x): 1 at 0, an opaque float elsewhere (OverflowError above
\* log(2^1024) = 709.78...)
MathExp(x) ==
    IF x.k = "fin"
    THEN (IF IsZero(x) THEN One
          ELSE IF FLeq(Frac(70979, 100), x) THEN Exc("OverflowError")
          ELSE Sym(<<"exp", x>>))
    ELSE IF x.k = "inf" THEN (IF x.neg THEN Zero ELSE x)
    ELSE IF x.k = "sym" THEN Sym(<<"exp", x>>)
    ELSE x

\* round(x, digits): to the nearest multiple of 10^-digits, ties to even
Round(x, digits) ==
    IF x.k # "fin" THEN x
    ELSE LET scale == BigPow(BigOfNat(10), digits)
             qr    == BigDivMod(BigMul(x.n, scale), x.d)
             twice == BigCmp(BigAdd(qr[2], qr[2]), x.d)
             odd   == qr[1] # << >> /\ qr[1][1] % 2 = 1
             q     == IF twice > 0 \/ (twice = 0 /\ odd)
                      THEN BigAdd(qr[1], <<1>>) ELSE qr[1]
         IN  Fin(x.neg, q, scale)

(***************************************************************************)
(* The functions of class Erlang.  A function's value is a number, or      *)
(* Exc(e) when the call raises e.                                          *)
(***************************************************************************)
\* mutant: the per-call time is converted once instead of twice
calculate_erlang_minutes(arrival_rate, mean_hold_time, average_call_time) ==
    IF \/ FLess(arrival_rate, Zero)
       \/ FLess(mean_hold_time, Zero)
       \/ FLess(average_call_time, Zero)
    THEN Exc("ValueError")
    ELSE LET total_time == FDiv(FAdd(mean_hold_time, average_call_time), PyInt(60))
         IN  Round(FMul(arrival_rate, total_time), 4)

calculate_erlang(arrival_rate, mean_hold_time, average_call_time) ==
    IF \/ FLess(arrival_rate, Zero)
       \/ FLess(mean_hold_time, Zero)
       \/ FLess(average_call_time, Zero)
    THEN Exc("ValueError")
    ELSE LET total_time == FDiv(FAdd(mean_hold_time, average_call_time), PyInt(60))
         IN  Round(FDiv(FMul(arrival_rate, total_time), PyInt(60)), 4)

\* the value of b after the iterations k = lo .. hi of the for loop, entered
\* with the value b (the range is run by halves, in order); an exception
\* ends the loop
RECURSIVE BlockingLoop(_, _, _, _)
BlockingLoop(erlangs, lo, hi, b) ==
    IF lo > hi THEN b
    ELSE IF lo = hi THEN FAdd(One, FDiv(FMul(PyInt(lo), b), erlangs))
    ELSE LET mid   == (lo + hi) \div 2
             first == BlockingLoop(erlangs, lo, mid, b)
         IN  IF first.k = "exc" THEN first
             ELSE BlockingLoop(erlangs, mid + 1, hi, first)

\* mutant: the loop stops one iteration early (range(1, channels))
calculate_blocking_probability_short(erlangs, channels) ==
    IF FLess(erlangs, Zero) \/ channels < 1
    THEN Exc("ValueError")
    ELSE FDiv(One, BlockingLoop(erlangs, 1, channels - 1, One))

calculate_blocking_probability(erlangs, channels) ==
    IF FLess(erlangs, Zero) \/ channels < 1
    THEN Exc("ValueError")
    ELSE FDiv(One, BlockingLoop(erlangs, 1, channels, One))

\* mutant: the factorial is left out of the term
PoissonTerm_power(erlangs, k) == MathPow(erlangs, k)

\* math.pow(erlangs, k) / math.factorial(k)
PoissonTerm(erlangs, k) == FDivInt(MathPow(erlangs, k), MathFactorial(k))

\* acc plus the terms k = lo .. hi of
\* sum(math.pow(erlangs, k) / math.factorial(k) for k in range(channels + 1)),
\* added in order (the range is run by halves); an exception ends the sum
RECURSIVE SeriesSum(_, _, _, _)
SeriesSum(erlangs, lo, hi, acc) ==
    IF lo > hi THEN acc
    ELSE IF lo = hi THEN FAdd(acc, PoissonTerm(erlangs, lo))
    ELSE LET mid   == (lo + hi) \div 2
             first == SeriesSum(erlangs, lo, mid, acc)
         IN  IF first.k = "exc" THEN first
             ELSE SeriesSum(erlangs, mid + 1, hi, first)

\* mutant: the saturation test is erlangs > channels
calculate_erlang_c_strict(erlangs, channels) ==
    IF FLess(PyInt(channels), erlangs) THEN One
    ELSE LET numerator ==
                 FMul(PoissonTerm(erlangs, channels),
                      FDiv(PyInt(channels), FSub(PyInt(channels), erlangs)))
             denominator == FAdd(SeriesSum(erlangs, 0, channels, Zero), numerator)
             raised == IF numerator.k = "exc" THEN numerator ELSE denominator
         IN  IF raised.k = "exc"
             THEN (IF raised.e = "OverflowError" THEN PosInf ELSE raised)
             ELSE FDiv(numerator, denominator)

calculate_erlang_c(erlangs, channels) ==
    IF FGeq(erlangs, PyInt(channels)) THEN One
    ELSE LET numerator ==
                 FMul(PoissonTerm(erlangs, channels),
                      FDiv(PyInt(channels), FSub(PyInt(channels), erlangs)))
             denominator == FAdd(SeriesSum(erlangs, 0, channels, Zero), numerator)
             raised == IF numerator.k = "exc" THEN numerator ELSE denominator
         IN  IF raised.k = "exc"
             THEN (IF raised.e = "OverflowError" THEN PosInf ELSE raised)
             ELSE FDiv(numerator, denominator)

calculate_waiting_time(erlangs, channels, mean_service_time) ==
    LET pw == calculate_erlang_c(erlangs, channels)
    IN  IF pw.k = "exc" THEN pw
        ELSE IF FLess(erlangs, PyInt(channels))
        THEN FMul(FDiv(pw, FSub(PyInt(channels), erlangs)), mean_service_time)
        ELSE PosInf

calculate_service_level(erlangs, channels, target_time) ==
    LET pw == calculate_erlang_c(erlangs, channels)
    IN  IF pw.k = "exc" THEN pw
        ELSE IF FLess(erlangs, PyInt(channels))
        THEN FMul(FSub(One, FMul(pw, MathExp(FMul(FNeg(FSub(PyInt(channels), erlangs)),
                                                  target_time)))),
                  PyInt(100))
        ELSE Zero

(***************************************************************************)
(* Bounds of the inputs                                                    *)
(***************************************************************************)
MaxLoadNum == 3
MaxLoadDen == 2
MaxChannels == 4
MaxTime == 2
MaxRate == 2
MaxSeconds == 2
MaxGoalDen == 3
MaxIter == 350

\* offered loads: small rationals, -1 (invalid), and the 10 Erlangs of the
\* reference scenario
Loads ==
    {Frac(n, d) : n \in 0 .. MaxLoadNum, d \in 1 .. MaxLoadDen}
        \cup {PyInt(-1), PyInt(10)}

\* channel counts: 0 is invalid, 15 is the reference scenario
Channels == (0 .. MaxChannels) \cup {15}

\* channel counts for Erlang C: 171 is the first whose factorial is outside
\* the float range
DelayChannels == Channels \cup {171}

Times == {PyInt(t) : t \in 0 .. MaxTime}

Rates == {PyInt(r) : r \in -1 .. MaxRate} \cup {PyInt(100)}

HoldTimes == {PyInt(t) : t \in -1 .. MaxSeconds}

CallTimes == HoldTimes \cup {PyInt(180)}

\* blocking goals: 0 and 1 are invalid
Goals == {Frac(1, g) : g \in 2 .. MaxGoalDen} \cup {Frac(1, 100), Zero, One}

\* loads at which the terms of the dimensioning loop leave the float range
HighLoads == {PyInt(1000), PyInt(1024)}

DimensioningInputs ==
    (Loads \X Goals) \cup (HighLoads \X {Frac(1, 100)})

(***************************************************************************)
(* State: the call being evaluated, and the locals of calculate_erlang_b   *)
(***************************************************************************)
VARIABLES pc, op, args, result,
          channel, previous_d, previous_e, block_percentage

vars == <<pc, op, args, result, channel, previous_d, previous_e, block_percentage>>

None == [k |-> "none"]

Init ==
    /\ pc = "idle"
    /\ op = "none"
    /\ args = << >>
    /\ result = None
    /\ channel = 0
    /\ previous_d = None
    /\ previous_e = None
    /\ block_percentage = None

Return(name, a, v) ==
    /\ pc = "idle"
    /\ pc' = "done"
    /\ op' = name
    /\ args' = a
    /\ result' = v
    /\ UNCHANGED <<channel, previous_d, previous_e, block_percentage>>

CalculateErlang ==
    \E r \in Rates, h \in HoldTimes, c \in CallTimes :
        Return("calculate_erlang",
               [arrival_rate |-> r, mean_hold_time |-> h, average_call_time |-> c],
               calculate_erlang(r, h, c))

CalculateBlockingProbability ==
    \E e \in Loads, c \in Channels :
        Return("calculate_blocking_probability",
               [erlangs |-> e, channels |-> c],
               calculate_blocking_probability(e, c))

CalculateErlangC ==
    \E e \in Loads, c \in DelayChannels :
        Return("calculate_erlang_c",
               [erlangs |-> e, channels |-> c],
               calculate_erlang_c(e, c))

CalculateWaitingTime ==
    \E e \in Loads, c \in DelayChannels, t \in Times :
        Return("calculate_waiting_time",
               [erlangs |-> e, channels |-> c, mean_service_time |-> t],
               calculate_waiting_time(e, c, t))

CalculateServiceLevel ==
    \E e \in Loads, c \in DelayChannels, t \in Times :
        Return("calculate_service_level",
               [erlangs |-> e, channels |-> c, target_time |-> t],
               calculate_service_level(e, c, t))

\* calculate_erlang_b up to the while loop: the argument check and the
\* initialisation of the locals
CalculateErlangB ==
    \E in \in DimensioningInputs :
        LET erlangs == in[1]
            block_level_goal == in[2]
        IN  /\ pc = "idle"
            /\ op' = "calculate_erlang_b"
            /\ args' = [erlangs |-> erlangs, block_level_goal |-> block_level_goal]
            /\ IF \/ FLess(erlangs, Zero)
                  \/ FLeq(block_level_goal, Zero)
                  \/ FGeq(block_level_goal, One)
               THEN /\ pc' = "done"
                    /\ result' = Exc("ValueError")
                    /\ UNCHANGED <<channel, previous_d, previous_e>>
               ELSE /\ pc' = "loop"
                    /\ result' = None
                    /\ channel' = 1
                    /\ previous_d' = One
                    /\ previous_e' = One
            /\ UNCHANGED block_percentage

\* one iteration of the while loop of calculate_erlang_b; leaving the loop
\* returns channel
ErlangBIteration ==
    /\ pc = "loop"
    /\ LET step == FMul(FDiv(args.erlangs, PyInt(channel)), previous_d)
           bp   == FDiv(step, FAdd(previous_e, step))
       IN  /\ block_percentage' = bp
           /\ previous_e' = FAdd(previous_e, step)
           /\ previous_d' = step
           /\ IF FLess(bp, args.block_level_goal)
              THEN /\ pc' = "done"
                   /\ result' = PyInt(channel)
                   /\ UNCHANGED channel
              ELSE /\ channel < MaxIter
                   /\ channel' = channel + 1
                   /\ UNCHANGED <<pc, result>>
    /\ UNCHANGED <<op, args>>

Next ==
    \/ CalculateErlang
    \/ CalculateBlockingProbability
    \/ CalculateErlangC
    \/ CalculateWaitingTime
    \/ CalculateServiceLevel
    \/ CalculateErlangB
    \/ ErlangBIteration

Spec == Init /\ [][Next]_vars

(***************************************************************************)
(* The reference the claims compare the code with: the Erlang B recurrence *)
(*   B(0) = 1,  B(k) = (load * B(k-1)) / (k + load * B(k-1)).              *)
(***************************************************************************)
ErlangBStep(load, k, b) == FDiv(FMul(load, b), FAdd(PyInt(k), FMul(load, b)))

\* B(hi) from b = B(lo - 1); the steps lo .. hi are taken in order, by halves
RECURSIVE ErlangBRange(_, _, _, _)
ErlangBRange(load, lo, hi, b) ==
    IF lo > hi THEN b
    ELSE IF lo = hi THEN ErlangBStep(load, lo, b)
    ELSE LET mid   == (lo + hi) \div 2
             first == ErlangBRange(load, lo, mid, b)
         IN  IF first.k = "exc" THEN first
             ELSE ErlangBRange(load, mid + 1, hi, first)

ErlangB(load, channels) == ErlangBRange(load, 1, channels, One)

\* |v - center| <= tolerance
Within(v, center, tolerance) ==
    /\ FLeq(FSub(center, tolerance), v)
    /\ FLeq(v, FAdd(center, tolerance))

Returned(name) == pc = "done" /\ op = name

Raised == result.k = "exc"

(***************************************************************************)
(* C1: for load > 0 and channels >= 1, calculate_blocking_probability      *)
(* returns exactly B(channels) of the Erlang B recurrence.                 *)
(***************************************************************************)
C1_BlockingIsErlangB ==
    (/\ Returned("calculate_blocking_probability")
     /\ FLess(Zero, args.erlangs)
     /\ args.channels >= 1)
        => FEq(result, ErlangB(args.erlangs, args.channels))

C1_Witness ==
    /\ Returned("calculate_blocking_probability")
    /\ FLess(Zero, args.erlangs)
    /\ args.channels >= 3
    /\ result.k = "fin"
    /\ FLess(Zero, result)

(***************************************************************************)
(* C2: for load >= 0 and 0 < goal < 1, calculate_erlang_b returns the      *)
(* smallest c >= 1 with B(c) < goal: B(c) < goal, and B(k) >= goal for     *)
(* every k in 1 .. c-1.                                                    *)
(***************************************************************************)
C2_SmallestChannelCount ==
    (/\ Returned("calculate_erlang_b")
     /\ FLeq(Zero, args.erlangs)
     /\ FLess(Zero, args.block_level_goal)
     /\ FLess(args.block_level_goal, One))
        => /\ result = PyInt(channel)
           /\ channel >= 1
           /\ FLess(ErlangB(args.erlangs, channel), args.block_level_goal)
           /\ \A k \in 1 .. (channel - 1) :
                  FGeq(ErlangB(args.erlangs, k), args.block_level_goal)

(***************************************************************************)
(* C3: for channels >= 1 and 0 <= load < channels, without overflow,       *)
(* calculate_erlang_c equals (channels * B) / (channels - load * (1 - B))  *)
(* with B = B(channels).                                                   *)
(***************************************************************************)
ErlangCFromB(load, channels) ==
    LET b == ErlangB(load, channels)
    IN  FDiv(FMul(PyInt(channels), b),
             FSub(PyInt(channels), FMul(load, FSub(One, b))))

C3_ErlangCRelation ==
    (/\ Returned("calculate_erlang_c")
     /\ args.channels >= 1
     /\ FLeq(Zero, args.erlangs)
     /\ FLess(args.erlangs, PyInt(args.channels))
     /\ result.k # "inf")
        => FEq(result, ErlangCFromB(args.erlangs, args.channels))

(***************************************************************************)
(* C4: when load >= channels (load >= 0, channels >= 1),                   *)
(* calculate_erlang_c returns exactly 1, calculate_waiting_time returns    *)
(* +infinity and calculate_service_level returns 0, and none raises.       *)
(***************************************************************************)
Saturated ==
    /\ op \in {"calculate_erlang_c", "calculate_waiting_time", "calculate_service_level"}
    /\ args.channels >= 1
    /\ FLeq(Zero, args.erlangs)
    /\ FGeq(args.erlangs, PyInt(args.channels))

C4_Saturation ==
    (pc = "done" /\ Saturated)
        => /\ ~Raised
           /\ op = "calculate_erlang_c" => result.k = "fin" /\ FEq(result, One)
           /\ op = "calculate_waiting_time" => result = PosInf
           /\ op = "calculate_service_level" => result.k = "fin" /\ FEq(result, Zero)

C4_Witness ==
    /\ Returned("calculate_waiting_time")
    /\ Saturated
    /\ FEq(args.erlangs, PyInt(args.channels))
    /\ FLess(Zero, args.mean_service_time)
    /\ result = PosInf

(***************************************************************************)
(* C5: every entry point that takes a load or a channel count raises an    *)
(* invalid-argument error when load < 0 or channels < 1; it never returns  *)
(* a value for such an input.                                              *)
(***************************************************************************)
C5_InvalidArgument ==
    (/\ pc = "done"
     /\ op \in {"calculate_blocking_probability", "calculate_erlang_c",
                "calculate_waiting_time", "calculate_service_level",
                "calculate_erlang_b"}
     /\ \/ FLess(args.erlangs, Zero)
        \/ op # "calculate_erlang_b" /\ args.channels < 1)
        => result = Exc("ValueError")

(***************************************************************************)
(* C6: calculate_blocking_probability(0, channels) returns exactly 0, a    *)
(* value and not an error, for every channels >= 1.                        *)
(***************************************************************************)
C6_ZeroLoad ==
    (/\ Returned("calculate_blocking_probability")
     /\ IsZero(args.erlangs)
     /\ args.channels >= 1)
        => result.k = "fin" /\ FEq(result, Zero)

(***************************************************************************)
(* C7: for load >= 0 and channels >= 1, calculate_erlang_c returns a value *)
(* in [0, 1]; when the power/factorial terms overflow it returns 1.        *)
(***************************************************************************)
C7_DelayProbabilityRange ==
    (/\ Returned("calculate_erlang_c")
     /\ FLeq(Zero, args.erlangs)
     /\ args.channels >= 1)
        => /\ result.k = "fin"
           /\ FLeq(Zero, result)
           /\ FLeq(result, One)

(***************************************************************************)
(* C8: the search loop of calculate_erlang_b terminates because, for       *)
(* load > 0, the blocking value evaluated at channel count c is strictly   *)
(* smaller than the one evaluated at c-1.                                  *)
(***************************************************************************)
C8_StrictlyDecreasing ==
    [][(/\ pc = "loop"
        /\ block_percentage # None
        /\ FLess(Zero, args.erlangs))
           => FLess(block_percentage', block_percentage)]_vars

(***************************************************************************)
(* C9 (as stated): calculate_blocking_probability(10, 15) is within 1e-3   *)
(* of 0.0599 and calculate_erlang_c(10, 15) is within 1e-3 of 0.128.       *)
(***************************************************************************)
ReferenceScenario == FEq(args.erlangs, PyInt(10)) /\ args.channels = 15

LoadScenario ==
    /\ Returned("calculate_erlang")
    /\ FEq(args.arrival_rate, PyInt(100))
    /\ IsZero(args.mean_hold_time)
    /\ FEq(args.average_call_time, PyInt(180))

\* v is a whole multiple of 10^-4
FourDecimals(v) ==
    /\ v.k = "fin"
    /\ BigDivMod(BigMul(v.n, BigOfNat(10000)), v.d)[2] = << >>

C10_AsStated ==
    /\ LoadScenario => Within(result, Frac(833, 10000), Frac(1, 1000))
    /\ (Returned("calculate_erlang") /\ ~Raised) => FourDecimals(result)

(***************************************************************************)
(* C10 (amended): calculate_erlang(100, 0, 180) returns 5 Erlangs, the     *)
(* result being rounded to 4 decimal digits.                               *)
(***************************************************************************)
C10_LoadScenario ==
    /\ LoadScenario => FEq(result, PyInt(5))
    /\ (Returned("calculate_erlang") /\ ~Raised) => FourDecimals(result)

C10_Witness == LoadScenario /\ result.k = "fin"

====
